---- MODULE Spec2Model ----
\* SlugSync backend (src/backend/main.py): accounts, host approval, events and
\* favorites, each request handler modelled as one atomic step on the database.
EXTENDS Integers, Sequences, FiniteSets, TLC

\* ---------------------------------------------------------------------------
\* Bounds of the model
\* ---------------------------------------------------------------------------
\* Largest event id the eventmodel id sequence hands out.
MaxEventId == 2
\* Timestamps are 1..MaxTime.
MaxTime == 2

Times == 1..MaxTime

\* ---------------------------------------------------------------------------
\* Values
\* ---------------------------------------------------------------------------
\* Optional[T]: None is the empty tuple, a present value v is <<v>>.
None == <<>>
Some(v) == <<v>>

\* An e-mail address, split at its "@".
Email(local, domain) == [local |-> local, domain |-> domain]

\* str.lower() on the domains that occur.
Lower(s) ==
    CASE s = "UCSC.EDU" -> "ucsc.edu"
      [] s = "Gmail.com" -> "gmail.com"
      [] OTHER -> s

\* The addresses Google tokens are issued for.
GoogleEmails ==
    { Email("admin", "ucsc.edu"), Email("a", "ucsc.edu"), Email("x", "gmail.com") }

ADMIN_EMAILS == { Email("admin", "ucsc.edu") }

GOOGLE_CLIENT_ID == "ios-client"

\* verify_ucsc_email letting every address through.
verify_ucsc_email_open(email) == TRUE

verify_ucsc_email(email) == Lower(email.domain) = "ucsc.edu"

\* What the tokeninfo call of authenticate_with_google can give for an id_token:
\* the call itself fails, a non-200 answer, or a 200 answer with its claims.
TokenInfos ==
    { [outcome |-> "error", aud |-> "", email |-> None],
      [outcome |-> "non200", aud |-> "", email |-> None],
      [outcome |-> "ok", aud |-> "other-client", email |-> Some(Email("a", "ucsc.edu"))],
      [outcome |-> "ok", aud |-> GOOGLE_CLIENT_ID, email |-> None] }
    \cup { [outcome |-> "ok", aud |-> GOOGLE_CLIENT_ID, email |-> Some(e)] : e \in GoogleEmails }

\* The workers that serve requests side by side: threads of the pool that runs
\* the "def" handlers, and the server processes for the "async def" ones.
Workers == {"w1", "w2"}

\* A worker between two requests.
Idle == [op |-> "idle"]

VARIABLES
    users,      \* table "user": sequence of rows, the id of a row is its index
    events,     \* table "eventmodel": function from the ids of the stored rows to rows
    event_seq,  \* last id the eventmodel id sequence handed out
    favorites,  \* table "favorite": set of rows <<user_id, event_id>> (composite primary key)
    resp,       \* the response of the last request
    inflight    \* per worker: the request it is in the middle of, with what it has read

vars == <<users, events, event_seq, favorites, resp, inflight>>

\* ---------------------------------------------------------------------------
\* Rows and request bodies
\* ---------------------------------------------------------------------------
User(email, is_host) == [email |-> email, is_host |-> is_host]

\* Columns of eventmodel that are NOT NULL.
RequiredColumns == {"name", "starts_at", "location"}

\* The response of a request: the handler, the HTTP status, the source line that
\* decided the outcome (the raise, the commit of the branch that wrote, else the
\* loop that deleted rows, else the return), the detail of the error and the ids
\* listed in the body.
Response(op, status, line, detail, body) ==
    [op |-> op, status |-> status, line |-> line, detail |-> detail, body |-> body]

\* EventIn.check_times
check_times(data) ==
    ~(data.ends_at # None /\ data.ends_at[1] <= data.starts_at)

\* Request bodies of POST /events/ (before validation).
EventBodies ==
    { [name |-> "Talk", starts_at |-> s, ends_at |-> e, location |-> "Hall",
       description |-> None, host |-> None, tags |-> None] :
         s \in Times, e \in {None} \cup { Some(t) : t \in Times } }

\* Request bodies of PATCH /events/{id}: only the fields that are set.
EventUpdates ==
    { [f \in {} |-> None] }
    \cup { [starts_at |-> s] : s \in {None} \cup { Some(t) : t \in Times } }
    \cup { [ends_at |-> e] : e \in {None} \cup { Some(t) : t \in Times } }
    \cup { [starts_at |-> Some(s), ends_at |-> Some(e)] : s \in Times, e \in Times }
    \cup { [name |-> None] }

\* The bodies and updates of the requests of Spec, where every event starts at
\* time 1: a body without an end and one the validator rejects; updates that set
\* or clear ends_at, set nothing, or null a required column.
PlainBodies == { b \in EventBodies : b.starts_at = 1 /\ b.ends_at \in {None, Some(1)} }

PlainUpdates ==
    { u \in EventUpdates :
        /\ "starts_at" \notin DOMAIN u
        /\ "ends_at" \in DOMAIN u => u.ends_at \in {None, Some(MaxTime)} }

\* ---------------------------------------------------------------------------
\* Dependencies
\* ---------------------------------------------------------------------------
\* get_current_user: the accounts a valid bearer token can resolve to.
get_current_user == 1..Len(users)

\* get_current_admin letting every account through.
get_current_admin_open(current_user) == TRUE

\* get_current_admin
get_current_admin(current_user) == users[current_user].email \in ADMIN_EMAILS

\* select(User).where(User.email == email).first()
UserByEmail(email) == { u \in 1..Len(users) : users[u].email = email }

\* ---------------------------------------------------------------------------
\* Initial state
\* ---------------------------------------------------------------------------
Init ==
    /\ users = <<>>
    /\ events = <<>>
    /\ event_seq = 0
    /\ favorites = {}
    /\ resp = Response("on_startup", 200, 154, "", <<>>)
    /\ inflight = [w \in Workers |-> Idle]

\* ---------------------------------------------------------------------------
\* POST /auth/google
\* ---------------------------------------------------------------------------
authenticate_with_google(info) ==
    LET op == "authenticate_with_google" IN
    IF info.outcome = "error" THEN
        /\ resp' = Response(op, 500, 321, "Internal server error", <<>>)
        /\ UNCHANGED <<users, events, event_seq, favorites>>
    ELSE IF info.outcome = "non200" THEN
        /\ resp' = Response(op, 401, 240, "Invalid Google token", <<>>)
        /\ UNCHANGED <<users, events, event_seq, favorites>>
    ELSE IF info.aud # GOOGLE_CLIENT_ID THEN
        /\ resp' = Response(op, 401, 249, "Token was not issued for this application", <<>>)
        /\ UNCHANGED <<users, events, event_seq, favorites>>
    ELSE IF info.email = None THEN
        /\ resp' = Response(op, 400, 259, "Email not provided by Google", <<>>)
        /\ UNCHANGED <<users, events, event_seq, favorites>>
    ELSE IF ~verify_ucsc_email(info.email[1]) THEN
        /\ resp' = Response(op, 403, 266, "Only @ucsc.edu emails are allowed to access SlugSync", <<>>)
        /\ UNCHANGED <<users, events, event_seq, favorites>>
    ELSE
        LET email == info.email[1]
            found == UserByEmail(email)
        IN  /\ IF found = {}
               THEN users' = Append(users, User(email, TRUE))
               ELSE LET u == CHOOSE x \in found : TRUE
                    IN  IF ~users[u].is_host
                        THEN users' = [users EXCEPT ![u].is_host = TRUE]
                        ELSE users' = users
            /\ resp' = IF found = {}
                       THEN Response(op, 200, 284, "", <<>>)
                       ELSE LET u == CHOOSE x \in found : TRUE
                            IN  Response(op, 200, IF ~users[u].is_host THEN 291 ELSE 295, "", <<>>)
            /\ UNCHANGED <<events, event_seq, favorites>>

\* ---------------------------------------------------------------------------
\* Admin endpoints
\* ---------------------------------------------------------------------------
\* The ids a path parameter user_id takes: every stored account and one absent id.
UserIds == 1..(Len(users) + 1)

\* select(User) with the optional where(User.is_host == is_host): the ids of the
\* matching rows from row i on, in id order.
RECURSIVE SelectUsers(_, _)
SelectUsers(i, is_host) ==
    IF i > Len(users) THEN <<>>
    ELSE (IF is_host = None \/ users[i].is_host = is_host[1] THEN <<i>> ELSE <<>>)
         \o SelectUsers(i + 1, is_host)

\* GET /admin/users
list_all_users(current_user, is_host) ==
    LET op == "list_all_users" IN
    /\ IF ~get_current_admin(current_user)
       THEN resp' = Response(op, 403, 217, "Admin access required", <<>>)
       ELSE resp' = Response(op, 200, 398, "", SelectUsers(1, is_host))
    /\ UNCHANGED <<users, events, event_seq, favorites>>

\* approve_host_status without the "already a host" guard.
approve_host_status_unguarded(current_user, user_id) ==
    LET op == "approve_host_status" IN
    IF ~get_current_admin(current_user) THEN
        /\ resp' = Response(op, 403, 217, "Admin access required", <<>>)
        /\ UNCHANGED <<users, events, event_seq, favorites>>
    ELSE IF user_id \notin 1..Len(users) THEN
        /\ resp' = Response(op, 404, 415, "User not found", <<>>)
        /\ UNCHANGED <<users, events, event_seq, favorites>>
    ELSE
        /\ users' = [users EXCEPT ![user_id].is_host = TRUE]
        /\ resp' = Response(op, 200, 428, "", <<>>)
        /\ UNCHANGED <<events, event_seq, favorites>>

\* PATCH /admin/users/{user_id}/approve-host
approve_host_status(current_user, user_id) ==
    LET op == "approve_host_status" IN
    IF ~get_current_admin(current_user) THEN
        /\ resp' = Response(op, 403, 217, "Admin access required", <<>>)
        /\ UNCHANGED <<users, events, event_seq, favorites>>
    ELSE IF user_id \notin 1..Len(users) THEN
        /\ resp' = Response(op, 404, 415, "User not found", <<>>)
        /\ UNCHANGED <<users, events, event_seq, favorites>>
    ELSE IF users[user_id].is_host THEN
        /\ resp' = Response(op, 400, 418, "User is already a host", <<>>)
        /\ UNCHANGED <<users, events, event_seq, favorites>>
    ELSE
        /\ users' = [users EXCEPT ![user_id].is_host = TRUE]
        /\ resp' = Response(op, 200, 428, "", <<>>)
        /\ UNCHANGED <<events, event_seq, favorites>>

\* PATCH /admin/users/{user_id}/revoke-host
revoke_host_status(current_user, user_id) ==
    LET op == "revoke_host_status" IN
    IF ~get_current_admin(current_user) THEN
        /\ resp' = Response(op, 403, 217, "Admin access required", <<>>)
        /\ UNCHANGED <<users, events, event_seq, favorites>>
    ELSE IF user_id \notin 1..Len(users) THEN
        /\ resp' = Response(op, 404, 445, "User not found", <<>>)
        /\ UNCHANGED <<users, events, event_seq, favorites>>
    ELSE IF ~users[user_id].is_host THEN
        /\ resp' = Response(op, 400, 448, "User is not a host", <<>>)
        /\ UNCHANGED <<users, events, event_seq, favorites>>
    ELSE
        /\ users' = [users EXCEPT ![user_id].is_host = FALSE]
        /\ resp' = Response(op, 200, 458, "", <<>>)
        /\ UNCHANGED <<events, event_seq, favorites>>

\* ---------------------------------------------------------------------------
\* Event endpoints
\* ---------------------------------------------------------------------------
\* The ids a path parameter event_id takes: every id handed out so far and the next.
EventIds == 1..(event_seq + 1)

\* create_event's "if not current_user.is_host" lets these accounts through.
is_host_open(current_user) == TRUE

is_host(current_user) == users[current_user].is_host

\* POST /events/
create_event(current_user, event_data) ==
    LET op == "create_event" IN
    IF ~check_times(event_data) THEN
        \* the body never becomes an EventIn: the handler is not entered
        /\ resp' = Response(op, 422, 117, "ends_at must be after starts_at", <<>>)
        /\ UNCHANGED <<users, events, event_seq, favorites>>
    ELSE IF ~is_host(current_user) THEN
        /\ resp' = Response(op, 403, 563, "Only event hosts can create events. Update your profile to become a host.", <<>>)
        /\ UNCHANGED <<users, events, event_seq, favorites>>
    ELSE
        LET id == event_seq + 1
            db_event == [name |-> event_data.name,
                         starts_at |-> event_data.starts_at,
                         ends_at |-> event_data.ends_at,
                         location |-> event_data.location,
                         description |-> event_data.description,
                         host |-> event_data.host,
                         tags |-> event_data.tags,
                         \* default_factory=datetime.utcnow: the instant of the
                         \* creation, counted in creations
                         created_at |-> id,
                         owner_id |-> Some(current_user)]
        IN  /\ event_seq < MaxEventId
            /\ events' = [i \in DOMAIN events \cup {id} |-> IF i = id THEN db_event ELSE events[i]]
            /\ event_seq' = id
            /\ resp' = Response(op, 201, 589, "", <<>>)
            /\ UNCHANGED <<users, favorites>>

\* The ownership test of update_event and delete_event.
is_owner_open(db_event, current_user) == TRUE

\* The ownership test that also asks the caller to be a host.
is_owner_host(db_event, current_user) ==
    db_event.owner_id = Some(current_user) /\ users[current_user].is_host

\* The ownership test that lets every caller at an event without owner.
is_owner_or_unowned(db_event, current_user) ==
    db_event.owner_id = None \/ db_event.owner_id = Some(current_user)

is_owner(db_event, current_user) == db_event.owner_id = Some(current_user)

\* An update that hands the event to nobody.
sqlmodel_update_owner(db_event, update_data) ==
    [f \in DOMAIN db_event |->
        IF f \in DOMAIN update_data
        THEN (IF f \in RequiredColumns /\ update_data[f] # None
              THEN update_data[f][1] ELSE update_data[f])
        ELSE IF f = "owner_id" THEN None
        ELSE db_event[f]]

\* model_dump() without exclude_unset: the fields of EventUpdate the body leaves
\* out replace the row's with their default None.
sqlmodel_update_unset(db_event, update_data) ==
    [f \in DOMAIN db_event |->
        IF f \in DOMAIN update_data
        THEN (IF f \in RequiredColumns /\ update_data[f] # None
              THEN update_data[f][1] ELSE update_data[f])
        ELSE IF f \in {"description", "host", "tags", "ends_at"} THEN None
        ELSE db_event[f]]

\* db_event.sqlmodel_update(update_data): the fields of the body replace the row's.
sqlmodel_update(db_event, update_data) ==
    [f \in DOMAIN db_event |->
        IF f \in DOMAIN update_data
        THEN (IF f \in RequiredColumns /\ update_data[f] # None
              THEN update_data[f][1] ELSE update_data[f])
        ELSE db_event[f]]

\* The NOT NULL constraints of eventmodel, checked by the commit.
NotNullViolated(update_data) ==
    \E f \in DOMAIN update_data \cap RequiredColumns : update_data[f] = None

\* PATCH /events/{event_id}
update_event(current_user, event_id, event_update) ==
    LET op == "update_event" IN
    IF event_id \notin DOMAIN events THEN
        /\ resp' = Response(op, 404, 625, "Event not found", <<>>)
        /\ UNCHANGED <<users, events, event_seq, favorites>>
    ELSE IF ~is_owner(events[event_id], current_user) THEN
        /\ resp' = Response(op, 403, 630, "Not authorized to modify this event", <<>>)
        /\ UNCHANGED <<users, events, event_seq, favorites>>
    ELSE IF NotNullViolated(event_update) THEN
        \* session.commit() raises IntegrityError, nothing is written
        /\ resp' = Response(op, 500, 641, "Internal Server Error", <<>>)
        /\ UNCHANGED <<users, events, event_seq, favorites>>
    ELSE
        /\ events' = [events EXCEPT ![event_id] = sqlmodel_update(events[event_id], event_update)]
        /\ resp' = Response(op, 200, 646, "", <<>>)
        /\ UNCHANGED <<users, event_seq, favorites>>

\* What the loop "for fav in favorites: session.delete(fav)" leaves of the table.
delete_favorites_of_none(event_id) == favorites

delete_favorites_of(event_id) == { fav \in favorites : fav[2] # event_id }

\* DELETE /events/{event_id}
delete_event(current_user, event_id) ==
    LET op == "delete_event" IN
    IF event_id \notin DOMAIN events THEN
        /\ resp' = Response(op, 404, 668, "Event not found", <<>>)
        /\ UNCHANGED <<users, events, event_seq, favorites>>
    ELSE IF ~is_owner(events[event_id], current_user) THEN
        /\ resp' = Response(op, 403, 671, "Not authorized to delete this event", <<>>)
        /\ UNCHANGED <<users, events, event_seq, favorites>>
    ELSE
        /\ favorites' = delete_favorites_of(event_id)
        /\ events' = [i \in DOMAIN events \ {event_id} |-> events[i]]
        /\ resp' = Response(op, 204,
                            IF \E fav \in favorites : fav[2] = event_id THEN 681 ELSE 683,
                            "", <<>>)
        /\ UNCHANGED <<users, event_seq>>

\* ---------------------------------------------------------------------------
\* Favorites endpoints
\* ---------------------------------------------------------------------------
\* The orders in which the store can hand back the rows with the ids in S.
Orders(S) ==
    { o \in [1..Cardinality(S) -> S] : \A i, j \in 1..Cardinality(S) : o[i] = o[j] => i = j }

\* list.sort(key=lambda e: e.starts_at, reverse=True) on a list of event ids: x
\* goes behind every element that starts later or at the same time (the sort is
\* stable).
RECURSIVE InsertDesc(_, _)
InsertDesc(x, sorted) ==
    IF sorted = <<>> THEN <<x>>
    ELSE IF events[Head(sorted)].starts_at >= events[x].starts_at
         THEN <<Head(sorted)>> \o InsertDesc(x, Tail(sorted))
         ELSE <<x>> \o sorted

RECURSIVE SortDesc(_, _)
SortDesc(list, n) ==
    IF n = 0 THEN <<>> ELSE InsertDesc(list[n], SortDesc(list, n - 1))

\* The join without the where clause: the events any account has favorited.
FavoriteJoin_all(current_user) ==
    { e \in DOMAIN events : \E fav \in favorites : fav[2] = e }

\* select(EventModel).join(Favorite, ...).where(Favorite.user_id == current_user.id)
FavoriteJoin(current_user) ==
    { e \in DOMAIN events : <<current_user, e>> \in favorites }

\* GET /favorites/
list_favorites(current_user) ==
    \E rows \in Orders(FavoriteJoin(current_user)) :
        /\ resp' = Response("list_favorites", 200, 703, "",
                            SortDesc(rows, Len(rows)))
        /\ UNCHANGED <<users, events, event_seq, favorites>>

\* The lookup of the caller's row for the event: "existing".
existing_none(current_user, event_id) == FALSE

existing(current_user, event_id) == <<current_user, event_id>> \in favorites

\* POST /events/{event_id}/favorite
favorite_event(current_user, event_id) ==
    LET op == "favorite_event" IN
    IF event_id \notin DOMAIN events THEN
        \* the HTTPException(404) of line 738 is raised inside the try block and
        \* caught by "except Exception", which answers 500
        /\ resp' = Response(op, 500, 762, "Error favoriting event: 404: Event not found", <<>>)
        /\ UNCHANGED <<users, events, event_seq, favorites>>
    ELSE IF existing(current_user, event_id) THEN
        /\ resp' = Response(op, 204, 747, "", <<>>)
        /\ UNCHANGED <<users, events, event_seq, favorites>>
    ELSE IF <<current_user, event_id>> \in favorites THEN
        \* the commit violates the primary key (user_id, event_id): IntegrityError,
        \* caught by "except Exception"
        /\ resp' = Response(op, 500, 762, "Error favoriting event: IntegrityError", <<>>)
        /\ UNCHANGED <<users, events, event_seq, favorites>>
    ELSE
        /\ favorites' = favorites \cup { <<current_user, event_id>> }
        /\ resp' = Response(op, 204, 750, "", <<>>)
        /\ UNCHANGED <<users, events, event_seq>>

\* unfavorite_event deleting every row of the caller.
unfavorite_event_all(current_user, event_id) ==
    /\ favorites' = { fav \in favorites : fav[1] # current_user }
    /\ resp' = Response("unfavorite_event", 204, 780, "", <<>>)
    /\ UNCHANGED <<users, events, event_seq>>

\* DELETE /events/{event_id}/favorite
unfavorite_event(current_user, event_id) ==
    LET op == "unfavorite_event" IN
    IF <<current_user, event_id>> \in favorites THEN
        /\ favorites' = favorites \ { <<current_user, event_id>> }
        /\ resp' = Response(op, 204, 780, "", <<>>)
        /\ UNCHANGED <<users, events, event_seq>>
    ELSE
        /\ resp' = Response(op, 204, 781, "", <<>>)
        /\ UNCHANGED <<users, events, event_seq, favorites>>

\* ---------------------------------------------------------------------------
\* The requests
\* ---------------------------------------------------------------------------
Login ==
    /\ \E info \in TokenInfos :
           authenticate_with_google(info)
    /\ UNCHANGED inflight

ListUsers ==
    /\ \E u \in get_current_user, h \in {None, Some(TRUE), Some(FALSE)} :
           list_all_users(u, h)
    /\ UNCHANGED inflight

ApproveHost ==
    /\ \E u \in get_current_user, id \in UserIds :
           approve_host_status(u, id)
    /\ UNCHANGED inflight

RevokeHost ==
    /\ \E u \in get_current_user, id \in UserIds :
           revoke_host_status(u, id)
    /\ UNCHANGED inflight

CreateEvent(bodies) ==
    /\ \E u \in get_current_user, body \in bodies :
           create_event(u, body)
    /\ UNCHANGED inflight

UpdateEvent(updates) ==
    /\ \E u \in get_current_user, id \in EventIds, upd \in updates :
           update_event(u, id, upd)
    /\ UNCHANGED inflight

DeleteEvent ==
    /\ \E u \in get_current_user, id \in EventIds :
           delete_event(u, id)
    /\ UNCHANGED inflight

ListFavorites ==
    /\ \E u \in get_current_user :
           list_favorites(u)
    /\ UNCHANGED inflight

FavoriteEvent ==
    /\ \E u \in get_current_user, id \in EventIds :
           favorite_event(u, id)
    /\ UNCHANGED inflight

UnfavoriteEvent ==
    /\ \E u \in get_current_user, id \in EventIds :
           unfavorite_event(u, id)
    /\ UNCHANGED inflight

\* Every handler, the event bodies without a choice of times.
Next ==
    \/ Login
    \/ ListUsers
    \/ ApproveHost
    \/ RevokeHost
    \/ CreateEvent(PlainBodies)
    \/ UpdateEvent(PlainUpdates)
    \/ DeleteEvent
    \/ ListFavorites
    \/ FavoriteEvent
    \/ UnfavoriteEvent

Spec == Init /\ [][Next]_vars

\* The event catalog alone, with every choice of times.
NextEvents ==
    \/ Login
    \/ CreateEvent(EventBodies)
    \/ UpdateEvent(EventUpdates)
    \/ DeleteEvent

SpecEvents == Init /\ [][NextEvents]_vars
\* ---------------------------------------------------------------------------
\* Text: the characters of a str, and the str methods on sequences of characters
\* ---------------------------------------------------------------------------
\* The characters of the strs that occur in events and queries.
Chars(s) ==
    CASE s = "" -> <<>>
      [] s = "Talk" -> <<"T", "a", "l", "k">>
      [] s = "Hall" -> <<"H", "a", "l", "l">>
      [] s = "Game" -> <<"G", "a", "m", "e">>
      [] s = "Stall" -> <<"S", "t", "a", "l", "l">>
      [] s = "Quad" -> <<"Q", "u", "a", "d">>
      [] s = "viTAL" -> <<"v", "i", "T", "A", "L">>
      [] s = "Fun, Art" -> <<"F", "u", "n", ",", " ", "A", "r", "t">>
      [] s = "fun" -> <<"f", "u", "n">>
      [] s = "FUN" -> <<"F", "U", "N">>
      [] s = "tAl" -> <<"t", "A", "l">>
      [] s = "al" -> <<"a", "l">>

UpperLetters ==
    <<"A", "B", "C", "D", "E", "F", "G", "H", "I", "J", "K", "L", "M",
      "N", "O", "P", "Q", "R", "S", "T", "U", "V", "W", "X", "Y", "Z">>

LowerLetters ==
    <<"a", "b", "c", "d", "e", "f", "g", "h", "i", "j", "k", "l", "m",
      "n", "o", "p", "q", "r", "s", "t", "u", "v", "w", "x", "y", "z">>

LowerChar(c) ==
    IF \E i \in DOMAIN UpperLetters : UpperLetters[i] = c
    THEN LowerLetters[CHOOSE i \in DOMAIN UpperLetters : UpperLetters[i] = c]
    ELSE c

\* str.lower()
str_lower(s) == [i \in 1..Len(s) |-> LowerChar(s[i])]

\* "q in s"
str_in(q, s) ==
    \E i \in 0..(Len(s) - Len(q)) : \A j \in 1..Len(q) : s[i + j] = q[j]

\* str.strip()
RECURSIVE str_strip(_)
str_strip(s) ==
    IF s = <<>> THEN s
    ELSE IF Head(s) = " " THEN str_strip(Tail(s))
    ELSE IF s[Len(s)] = " " THEN str_strip(SubSeq(s, 1, Len(s) - 1))
    ELSE s

\* str.split(',')
RECURSIVE str_split(_)
str_split(s) ==
    IF \A i \in 1..Len(s) : s[i] # ","
    THEN <<s>>
    ELSE LET i == CHOOSE k \in 1..Len(s) :
                      s[k] = "," /\ \A m \in 1..(k - 1) : s[m] # ","
         IN  <<SubSeq(s, 1, i - 1)>> \o str_split(SubSeq(s, i + 1, Len(s)))

\* "x or ''" on an Optional[str]
or_empty(x) == IF x = None THEN "" ELSE x[1]

\* ---------------------------------------------------------------------------
\* GET /events/
\* ---------------------------------------------------------------------------
\* Query(50, ge=1, le=500) of limit and Query(None, min_length=3) of q.
LimitMin == 1
LimitMax == 500
LimitDefault == 50
QMinLength == 3

\* func.coalesce(EventModel.ends_at, EventModel.starts_at)
coalesce_end(event) == IF event.ends_at # None THEN event.ends_at[1] ELSE event.starts_at

\* The clause of line 488, keeping every event without ends_at.
not_ended_or_null(event, now) == event.ends_at = None \/ event.ends_at[1] >= now

\* The clause of line 488: the event has not ended at the instant now.
not_ended(event, now) == coalesce_end(event) >= now

\* The where clauses of the statement, with the clause of line 488 in every query.
SelectEvents_upcoming(now, start_date, end_date, include_past) ==
    { e \in DOMAIN events :
        /\ not_ended(events[e], now)
        /\ start_date = None \/ events[e].starts_at >= start_date[1]
        /\ end_date = None \/ events[e].starts_at <= end_date[1] }

\* The where clauses of the statement: the ids of the rows the store hands back.
SelectEvents(now, start_date, end_date, include_past) ==
    { e \in DOMAIN events :
        /\ include_past \/ not_ended(events[e], now)
        /\ start_date = None \/ events[e].starts_at >= start_date[1]
        /\ end_date = None \/ events[e].starts_at <= end_date[1] }

\* The test of q without the calls of lower().
q_matches_cased(q, event) ==
    (q # None /\ q[1] # "") =>
        \/ str_in(Chars(q[1]), Chars(event.name))
        \/ str_in(Chars(q[1]), Chars(or_empty(event.description)))
        \/ str_in(Chars(q[1]), Chars(event.location))

\* The test of q in the loop over the results.
q_matches(q, event) ==
    (q # None /\ q[1] # "") =>
        LET q_lower == str_lower(Chars(q[1]))
        IN  \/ str_in(q_lower, str_lower(Chars(event.name)))
            \/ str_in(q_lower, str_lower(Chars(or_empty(event.description))))
            \/ str_in(q_lower, str_lower(Chars(event.location)))

\* [t.strip().lower() for t in (event.tags or "").split(',') if t.strip()]
event_tags(event) ==
    LET parts == str_split(Chars(or_empty(event.tags)))
        kept == SelectSeq(parts, LAMBDA t : str_strip(t) # <<>>)
    IN  [i \in 1..Len(kept) |-> str_lower(str_strip(kept[i]))]

\* The test of tag in the loop over the results.
tag_matches(tag, event) ==
    (tag # None /\ tag[1] # "") =>
        \E i \in DOMAIN event_tags(event) : event_tags(event)[i] = str_lower(Chars(tag[1]))

\* filtered_results.sort(key=lambda e: e.starts_at): x goes behind every element
\* that starts earlier or at the same time (the sort is stable).
RECURSIVE InsertAsc(_, _)
InsertAsc(x, sorted) ==
    IF sorted = <<>> THEN <<x>>
    ELSE IF events[Head(sorted)].starts_at <= events[x].starts_at
         THEN <<Head(sorted)>> \o InsertAsc(x, Tail(sorted))
         ELSE <<x>> \o sorted

RECURSIVE SortAsc(_, _)
SortAsc(list, n) ==
    IF n = 0 THEN <<>> ELSE InsertAsc(list[n], SortAsc(list, n - 1))

\* The results without the slice of line 532.
Truncate_none(list, limit) == list

\* filtered_results[:limit]
Truncate(list, limit) == SubSeq(list, 1, IF limit < Len(list) THEN limit ELSE Len(list))

\* The response of list_events keeps the query it answers.
ListResponse(query, status, line, detail, body) ==
    [op |-> "list_events", status |-> status, line |-> line, detail |-> detail,
     body |-> body, query |-> query]

\* now is the reading of the clock at line 483.
list_events(now, q, tag, start_date, end_date, limit, include_past) ==
    LET query == [now |-> now, q |-> q, tag |-> tag, start_date |-> start_date,
                  end_date |-> end_date, limit |-> limit, include_past |-> include_past]
    IN
    /\ IF q # None /\ Len(Chars(q[1])) < QMinLength THEN
           resp' = ListResponse(query, 422, 470, "String should have at least 3 characters", <<>>)
       ELSE IF limit < LimitMin \/ limit > LimitMax THEN
           resp' = ListResponse(query, 422, 474, "Input should be between 1 and 500", <<>>)
       ELSE
           \E results \in Orders(SelectEvents(now, start_date, end_date, include_past)) :
               LET filtered_results ==
                       SelectSeq(results,
                                 LAMBDA e : q_matches(q, events[e]) /\ tag_matches(tag, events[e]))
               IN  resp' = ListResponse(query, 200, 519, "",
                               Truncate(SortAsc(filtered_results, Len(filtered_results)), limit))
    /\ UNCHANGED <<users, events, event_seq, favorites>>

\* ---------------------------------------------------------------------------
\* Requests of the event listing
\* ---------------------------------------------------------------------------
\* Bodies of POST /events/ that differ in where "tal" occurs (name, location,
\* description, nowhere), in their tags and in their times.
QueryBodies ==
    { [name |-> "Talk", starts_at |-> 1, ends_at |-> None, location |-> "Hall",
       description |-> None, host |-> None, tags |-> None],
      [name |-> "Game", starts_at |-> 1, ends_at |-> Some(MaxTime), location |-> "Stall",
       description |-> None, host |-> None, tags |-> Some("Fun, Art")],
      [name |-> "Game", starts_at |-> MaxTime, ends_at |-> None, location |-> "Quad",
       description |-> Some("viTAL"), host |-> None, tags |-> Some("fun")],
      [name |-> "Game", starts_at |-> MaxTime, ends_at |-> None, location |-> "Quad",
       description |-> None, host |-> None, tags |-> None] }

\* The readings of the clock: up to one instant after the last time of an event.
Nows == 1..(MaxTime + 1)

\* Query strings of GET /events/ (before validation): every combination of the
\* filters with a limit that truncates and the default one, and the queries the
\* validation of q and of limit rejects.
Queries ==
    { [now |-> now, q |-> q, tag |-> tag, start_date |-> range[1], end_date |-> range[2],
       limit |-> limit, include_past |-> include_past] :
         now \in Nows, q \in {None, Some("tAl")}, tag \in {None, Some("FUN")},
         range \in {<<None, None>>, <<Some(MaxTime), None>>, <<None, Some(1)>>},
         limit \in {LimitMin, LimitDefault}, include_past \in BOOLEAN }
    \cup { [now |-> 1, q |-> q, tag |-> None, start_date |-> None, end_date |-> None,
            limit |-> limit, include_past |-> TRUE] :
              q \in {None, Some("al")}, limit \in {LimitMin - 1, LimitDefault, LimitMax + 1} }

\* A login of one of the given addresses with a token Google accepts.
LoginAs(emails) ==
    /\ \E e \in emails :
           authenticate_with_google([outcome |-> "ok", aud |-> GOOGLE_CLIENT_ID, email |-> Some(e)])
    /\ UNCHANGED inflight

ListEvents ==
    /\ \E query \in Queries :
           list_events(query.now, query.q, query.tag, query.start_date, query.end_date,
                       query.limit, query.include_past)
    /\ UNCHANGED inflight

\* The event listing over events of one host.
NextQuery ==
    \/ LoginAs({Email("a", "ucsc.edu")})
    \/ CreateEvent(QueryBodies)
    \/ ListEvents

SpecQuery == Init /\ [][NextQuery]_vars

\* The stored events that pass every filter of a query.
Matching(query) ==
    { e \in SelectEvents(query.now, query.start_date, query.end_date, query.include_past) :
        q_matches(query.q, events[e]) /\ tag_matches(query.tag, events[e]) }

\* ---------------------------------------------------------------------------
\* Requests that edit the text of events
\* ---------------------------------------------------------------------------
FieldBodies ==
    { [name |-> "Talk", starts_at |-> 1, ends_at |-> Some(MaxTime), location |-> "Hall",
       description |-> None, host |-> None, tags |-> None] }

\* Bodies of PATCH /events/{id} that set one field, two fields, none, that null
\* an optional field and that null a required one.
FieldUpdates ==
    { [f \in {} |-> None],
      [location |-> Some("Quad")],
      [description |-> Some("viTAL")],
      [description |-> None],
      [name |-> Some("Game"), tags |-> Some("fun")],
      [name |-> None] }

\* One host that creates, edits and favorites events.
NextFields ==
    \/ LoginAs({Email("a", "ucsc.edu")})
    \/ CreateEvent(FieldBodies)
    \/ UpdateEvent(FieldUpdates)
    \/ FavoriteEvent

SpecFields == Init /\ [][NextFields]_vars

\* ---------------------------------------------------------------------------
\* Bearer tokens that get_current_user turns down
\* ---------------------------------------------------------------------------
\* The addresses of the logins and bearer tokens of SpecAuth: those of GoogleEmails,
\* a UCSC address in capitals and addresses of other domains.
AuthEmails ==
    GoogleEmails \cup { Email("b", "UCSC.EDU"), Email("y", "Gmail.com"),
                        Email("z", "ucsc.edu.example.com") }

AuthTokenInfos ==
    TokenInfos
    \cup { [outcome |-> "ok", aud |-> GOOGLE_CLIENT_ID, email |-> Some(e)] : e \in AuthEmails }

\* What the Authorization header can carry: nothing, or a token that jwt.decode
\* refuses (not a JWT, signed with another key, expired) or accepts, with the
\* payload's "sub" if it has one.
BearerTokens ==
    {None}
    \cup { Some([jwt |-> j, sub |-> None]) : j \in {"malformed", "bad_signature", "expired", "ok"} }
    \cup { Some([jwt |-> "ok", sub |-> Some(e)]) : e \in AuthEmails }

\* The line at which get_current_user raises for a token, 0 if it returns the user.
get_current_user_raises(token) ==
    IF token = None THEN 188
    ELSE IF token[1].jwt # "ok" THEN 205
    ELSE IF token[1].sub = None THEN 199
    ELSE IF UserByEmail(token[1].sub[1]) = {} THEN 210
    ELSE 0

\* A credentials_exception that tells a missing account from a bad token.
credentials_exception_leaky(op, line) ==
    IF line = 210
    THEN Response(op, 404, line, "User not found", <<>>)
    ELSE Response(op, 401, line, "Could not validate credentials", <<>>)

\* credentials_exception, as raised at the given line under the given route.
credentials_exception(op, line) ==
    Response(op, 401, line, "Could not validate credentials", <<>>)

\* The routes that depend on get_current_user.
ProtectedOps ==
    { "list_all_users", "approve_host_status", "revoke_host_status",
      "create_event", "update_event", "delete_event",
      "list_favorites", "favorite_event", "unfavorite_event" }

\* A request of a protected route whose token get_current_user turns down: the
\* handler is not entered.
get_current_user_fails(op, token) ==
    /\ get_current_user_raises(token) # 0
    /\ resp' = credentials_exception(op, get_current_user_raises(token))
    /\ UNCHANGED <<users, events, event_seq, favorites>>

Unauthenticated ==
    /\ \E op \in ProtectedOps, token \in BearerTokens :
           get_current_user_fails(op, token)
    /\ UNCHANGED inflight

LoginWith(infos) ==
    /\ \E info \in infos :
           authenticate_with_google(info)
    /\ UNCHANGED inflight

\* Logins, requests with bad tokens and the admin endpoints.
NextAuth ==
    \/ LoginWith(AuthTokenInfos)
    \/ Unauthenticated
    \/ ListUsers
    \/ ApproveHost
    \/ RevokeHost

SpecAuth == Init /\ [][NextAuth]_vars

\* ---------------------------------------------------------------------------
\* Requests of the favorites of two accounts
\* ---------------------------------------------------------------------------
\* Bodies of POST /events/ with different start times.
FavoriteBodies ==
    { [name |-> "Talk", starts_at |-> s, ends_at |-> None, location |-> "Hall",
       description |-> None, host |-> None, tags |-> None] : s \in {1, MaxTime} }

\* Two accounts that create events of different start times and favorite,
\* unfavorite and list them.
NextFavorites ==
    \/ LoginAs({Email("a", "ucsc.edu"), Email("admin", "ucsc.edu")})
    \/ CreateEvent(FavoriteBodies)
    \/ FavoriteEvent
    \/ UnfavoriteEvent
    \/ ListFavorites

SpecFavorites == Init /\ [][NextFavorites]_vars

\* ---------------------------------------------------------------------------
\* Requests served side by side: one step per round trip to the store
\* ---------------------------------------------------------------------------
\* What worker w goes on with, and what it has read so far.
Begin(w, request) == inflight' = [inflight EXCEPT ![w] = request]

End(w) == inflight' = [inflight EXCEPT ![w] = Idle]

\* authenticate_with_google up to the select of line 273, for a token that passes
\* the checks of lines 239-269: the worker holds the row it found, if any.
authenticate_lookup(w, email) ==
    /\ inflight[w] = Idle
    /\ verify_ucsc_email(email)
    /\ LET found == UserByEmail(email)
       IN  Begin(w, [op |-> "authenticate_with_google", email |-> email,
                     user |-> IF found = {} THEN None
                              ELSE Some(CHOOSE x \in found : TRUE),
                     is_host |-> IF found = {} THEN None
                                 ELSE Some(users[CHOOSE x \in found : TRUE].is_host)])
    /\ UNCHANGED <<users, events, event_seq, favorites, resp>>

\* authenticate_with_google from line 275 on: the insert or the update and its
\* commit. The insert of an address that another request has stored since the
\* select violates unique=True of User.email: the IntegrityError is caught at
\* line 296 and answered 500.
authenticate_commit(w) ==
    LET op == "authenticate_with_google"
        request == inflight[w]
    IN
    /\ request.op = op
    /\ IF request.user = None THEN
           IF UserByEmail(request.email) # {} THEN
               /\ resp' = Response(op, 500, 302, "Database error", <<>>)
               /\ users' = users
           ELSE
               /\ users' = Append(users, User(request.email, TRUE))
               /\ resp' = Response(op, 200, 284, "", <<>>)
       ELSE IF request.is_host = Some(FALSE) THEN
           /\ users' = [users EXCEPT ![request.user[1]].is_host = TRUE]
           /\ resp' = Response(op, 200, 291, "", <<>>)
       ELSE
           /\ users' = users
           /\ resp' = Response(op, 200, 295, "", <<>>)
    /\ End(w)
    /\ UNCHANGED <<events, event_seq, favorites>>

LoginLookup(emails) == \E w \in Workers, e \in emails : authenticate_lookup(w, e)

LoginCommit == \E w \in Workers : authenticate_commit(w)

\* Logins of two addresses, served side by side.
NextLoginRace ==
    \/ LoginLookup({Email("a", "ucsc.edu"), Email("admin", "ucsc.edu")})
    \/ LoginCommit

SpecLoginRace == Init /\ [][NextLoginRace]_vars

\* approve_host_status up to its guard: session.get and the test of is_host. A request
\* that passes goes on to the write.
approve_host_status_read(w, current_user, user_id) ==
    LET op == "approve_host_status" IN
    /\ inflight[w] = Idle
    /\ IF ~get_current_admin(current_user) THEN
           /\ resp' = Response(op, 403, 217, "Admin access required", <<>>)
           /\ UNCHANGED inflight
       ELSE IF user_id \notin 1..Len(users) THEN
           /\ resp' = Response(op, 404, 415, "User not found", <<>>)
           /\ UNCHANGED inflight
       ELSE IF users[user_id].is_host THEN
           /\ resp' = Response(op, 400, 418, "User is already a host", <<>>)
           /\ UNCHANGED inflight
       ELSE
           /\ Begin(w, [op |-> op, user_id |-> user_id])
           /\ UNCHANGED resp
    /\ UNCHANGED <<users, events, event_seq, favorites>>

\* approve_host_status from the assignment of is_host on: the UPDATE and its commit.
approve_host_status_commit(w) ==
    LET op == "approve_host_status" IN
    /\ inflight[w].op = op
    /\ users' = [users EXCEPT ![inflight[w].user_id].is_host = TRUE]
    /\ resp' = Response(op, 200, 428, "", <<>>)
    /\ End(w)
    /\ UNCHANGED <<events, event_seq, favorites>>

\* revoke_host_status up to its guard: session.get and the test of is_host. A request
\* that passes goes on to the write.
revoke_host_status_read(w, current_user, user_id) ==
    LET op == "revoke_host_status" IN
    /\ inflight[w] = Idle
    /\ IF ~get_current_admin(current_user) THEN
           /\ resp' = Response(op, 403, 217, "Admin access required", <<>>)
           /\ UNCHANGED inflight
       ELSE IF user_id \notin 1..Len(users) THEN
           /\ resp' = Response(op, 404, 445, "User not found", <<>>)
           /\ UNCHANGED inflight
       ELSE IF ~users[user_id].is_host THEN
           /\ resp' = Response(op, 400, 448, "User is not a host", <<>>)
           /\ UNCHANGED inflight
       ELSE
           /\ Begin(w, [op |-> op, user_id |-> user_id])
           /\ UNCHANGED resp
    /\ UNCHANGED <<users, events, event_seq, favorites>>

\* revoke_host_status from the assignment of is_host on: the UPDATE and its commit.
revoke_host_status_commit(w) ==
    LET op == "revoke_host_status" IN
    /\ inflight[w].op = op
    /\ users' = [users EXCEPT ![inflight[w].user_id].is_host = FALSE]
    /\ resp' = Response(op, 200, 458, "", <<>>)
    /\ End(w)
    /\ UNCHANGED <<events, event_seq, favorites>>

ApproveRead ==
    \E w \in Workers, u \in get_current_user, id \in UserIds : approve_host_status_read(w, u, id)

ApproveCommit == \E w \in Workers : approve_host_status_commit(w)

RevokeRead ==
    \E w \in Workers, u \in get_current_user, id \in UserIds : revoke_host_status_read(w, u, id)

RevokeCommit == \E w \in Workers : revoke_host_status_commit(w)

\* An admin and one more account; approvals and revocations served side by side.
NextHostRace ==
    \/ LoginAs({Email("admin", "ucsc.edu"), Email("a", "ucsc.edu")})
    \/ ApproveRead
    \/ ApproveCommit
    \/ RevokeRead
    \/ RevokeCommit

SpecHostRace == Init /\ [][NextHostRace]_vars

\* Whether the store enforces the foreign keys of the favorite table: PostgreSQL
\* does, SQLite does not unless PRAGMA foreign_keys is set, which the program
\* never does. The program runs on either (DATABASE_URL).
ForeignKeysEnforced == BOOLEAN

\* favorite_event up to the lookup of "existing": session.get of the event and
\* the select of the caller's row. A request that finds the event and no row goes
\* on to the insert.
favorite_event_check(w, current_user, event_id) ==
    LET op == "favorite_event" IN
    /\ inflight[w] = Idle
    /\ IF event_id \notin DOMAIN events THEN
           /\ resp' = Response(op, 500, 762, "Error favoriting event: 404: Event not found", <<>>)
           /\ UNCHANGED inflight
       ELSE IF existing(current_user, event_id) THEN
           /\ resp' = Response(op, 204, 747, "", <<>>)
           /\ UNCHANGED inflight
       ELSE
           /\ Begin(w, [op |-> op, user_id |-> current_user, event_id |-> event_id])
           /\ UNCHANGED resp
    /\ UNCHANGED <<users, events, event_seq, favorites>>

\* favorite_event from session.add on: the insert and its commit. A row that
\* another request has stored since the lookup violates the primary key, and an
\* event deleted since violates the foreign key where it is enforced: either
\* IntegrityError is caught at line 752 and answered 500.
favorite_event_commit(w) ==
    LET op == "favorite_event"
        request == inflight[w]
        row == <<request.user_id, request.event_id>>
    IN
    /\ request.op = op
    /\ \E enforced \in ForeignKeysEnforced :
           IF row \in favorites \/ (request.event_id \notin DOMAIN events /\ enforced) THEN
               /\ resp' = Response(op, 500, 762, "Error favoriting event: IntegrityError", <<>>)
               /\ favorites' = favorites
           ELSE
               /\ favorites' = favorites \cup {row}
               /\ resp' = Response(op, 204, 750, "", <<>>)
    /\ End(w)
    /\ UNCHANGED <<users, events, event_seq>>

\* delete_event up to the select of the favorites of the event: the worker holds
\* the rows it has read.
delete_event_read(w, current_user, event_id) ==
    LET op == "delete_event" IN
    /\ inflight[w] = Idle
    /\ IF event_id \notin DOMAIN events THEN
           /\ resp' = Response(op, 404, 668, "Event not found", <<>>)
           /\ UNCHANGED inflight
       ELSE IF ~is_owner(events[event_id], current_user) THEN
           /\ resp' = Response(op, 403, 671, "Not authorized to delete this event", <<>>)
           /\ UNCHANGED inflight
       ELSE
           /\ Begin(w, [op |-> op, event_id |-> event_id,
                        favorites |-> { fav \in favorites : fav[2] = event_id }])
           /\ UNCHANGED resp
    /\ UNCHANGED <<users, events, event_seq, favorites>>

\* delete_event from the loop of line 680 on: the deletes of the rows read and of
\* the event, and the commit. A favorites row of the event stored since the read
\* is not deleted: where the foreign key is enforced the delete of the event
\* fails (IntegrityError, answered 500), elsewhere the row stays behind. Deleting
\* a row that is already gone matches nothing and is no error.
delete_event_commit(w) ==
    LET op == "delete_event"
        request == inflight[w]
        unread == { fav \in favorites : fav[2] = request.event_id } \ request.favorites
    IN
    /\ request.op = op
    /\ \E enforced \in ForeignKeysEnforced :
           IF request.event_id \in DOMAIN events /\ unread # {} /\ enforced THEN
               /\ resp' = Response(op, 500, 684, "Internal Server Error", <<>>)
               /\ UNCHANGED <<events, favorites>>
           ELSE
               /\ favorites' = favorites \ request.favorites
               /\ events' = [e \in DOMAIN events \ {request.event_id} |-> events[e]]
               /\ resp' = Response(op, 204, 684, "", <<>>)
    /\ End(w)
    /\ UNCHANGED <<users, event_seq>>

FavoriteCheck ==
    \E w \in Workers, u \in get_current_user, id \in EventIds : favorite_event_check(w, u, id)

FavoriteCommit == \E w \in Workers : favorite_event_commit(w)

DeleteRead ==
    \E w \in Workers, u \in get_current_user, id \in EventIds : delete_event_read(w, u, id)

DeleteCommit == \E w \in Workers : delete_event_commit(w)

\* One host; favorites and deletions served side by side.
NextFavoriteRace ==
    \/ LoginAs({Email("a", "ucsc.edu")})
    \/ CreateEvent(FieldBodies)
    \/ FavoriteCheck
    \/ FavoriteCommit
    \/ DeleteRead
    \/ DeleteCommit
    \/ UnfavoriteEvent

SpecFavoriteRace == Init /\ [][NextFavoriteRace]_vars

\* ---------------------------------------------------------------------------
\* Ownership: who may change an event
\* ---------------------------------------------------------------------------
\* A row of eventmodel stored before events had owners: owner_id is NULL.
LegacyEvent ==
    [name |-> "Talk", starts_at |-> 1, ends_at |-> None, location |-> "Hall",
     description |-> None, host |-> None, tags |-> None, created_at |-> 1,
     owner_id |-> None]

\* A store that holds one such row, with id 1, when the program starts.
InitLegacy ==
    /\ users = <<>>
    /\ events = [e \in {1} |-> LegacyEvent]
    /\ event_seq = 1
    /\ favorites = {}
    /\ resp = Response("on_startup", 200, 154, "", <<>>)
    /\ inflight = [w \in Workers |-> Idle]

\* Logins, revocations and the requests that write events.
NextOwnership ==
    \/ Login
    \/ RevokeHost
    \/ CreateEvent(PlainBodies)
    \/ UpdateEvent(PlainUpdates)
    \/ DeleteEvent

SpecOwnership == Init /\ [][NextOwnership]_vars

SpecLegacy == InitLegacy /\ [][NextOwnership]_vars

\* ---------------------------------------------------------------------------
\* Properties
\* ---------------------------------------------------------------------------
\* C1: for every stored event and every account that is not its owner,
\* update_event (with any body) and delete_event by that account answer 403 and
\* leave the event table and the favorites table as they were.
C1_NonOwnerForbidden ==
    [][\A u \in get_current_user, id \in DOMAIN events :
          ( /\ resp'.op \in {"update_event", "delete_event"}
            /\ events[id].owner_id # Some(u)
            /\ \/ \E upd \in EventUpdates : update_event(u, id, upd)
               \/ delete_event(u, id) )
          => /\ resp'.status = 403
             /\ events' = events
             /\ favorites' = favorites]_vars

\* A non-owner's update was refused while the event has a favorites row.
C1_Witness ==
    /\ resp.op = "update_event"
    /\ resp.status = 403
    /\ \E fav \in favorites : fav[2] \in DOMAIN events

\* C2: every stored event with an ends_at has ends_at strictly after starts_at.
C2_EndsAfterStarts ==
    \A id \in DOMAIN events :
        events[id].ends_at # None => events[id].ends_at[1] > events[id].starts_at

\* C3: create_event by an account that is not a host stores nothing and, once
\* the body is a valid EventIn, answers 403; a row only enters the event table
\* through create_event called by an account that is a host at that moment.
C3_OnlyHostsCreate ==
    [][/\ \A u \in get_current_user, body \in EventBodies :
             (resp'.op = "create_event" /\ ~users[u].is_host /\ create_event(u, body))
             => /\ events' = events
                /\ event_seq' = event_seq
                /\ resp'.status \in {403, 422}
                /\ check_times(body) => resp'.status = 403
       /\ \A id \in DOMAIN events' \ DOMAIN events :
             /\ resp'.op = "create_event"
             /\ events'[id].owner_id # None
             /\ events'[id].owner_id[1] \in get_current_user
             /\ users[events'[id].owner_id[1]].is_host]_vars

\* A non-host's create_event was refused.
C3_Witness ==
    /\ resp.op = "create_event"
    /\ resp.status = 403
    /\ \E u \in get_current_user : ~users[u].is_host

\* C4: an existing account's is_host goes from false to true only in a step of
\* approve_host_status.
C4_OnlyApprovalMakesHost ==
    [][\A u \in get_current_user :
          (~users[u].is_host /\ users'[u].is_host) => resp'.op = "approve_host_status"]_vars

\* C5: the account a first login creates is not a host.
C5_NewAccountNotHost ==
    (resp.op = "authenticate_with_google" /\ resp.line = 284) => ~users[Len(users)].is_host

\* C6: for an admin caller, approve-host on a host answers 400 "User is already a
\* host" and revoke-host on a non-host answers 400 "User is not a host"; neither
\* changes the user table.
C6_StateConflict ==
    [][\A a \in get_current_user, id \in get_current_user :
          get_current_admin(a) =>
            /\ (users[id].is_host /\ resp'.op = "approve_host_status"
                    /\ approve_host_status(a, id))
               => /\ resp'.status = 400
                  /\ resp'.detail = "User is already a host"
                  /\ users' = users
            /\ (~users[id].is_host /\ resp'.op = "revoke_host_status"
                    /\ revoke_host_status(a, id))
               => /\ resp'.status = 400
                  /\ resp'.detail = "User is not a host"
                  /\ users' = users]_vars

\* An admin asked to approve an account that is a host, and was refused.
C6_Witness ==
    /\ resp.op = "approve_host_status"
    /\ resp.status = 400
    /\ \E u \in get_current_user : users[u].is_host

\* C7: list-accounts, approve-host and revoke-host by an account whose e-mail is
\* not in ADMIN_EMAILS answer 403 and leave the user table as it was; no step
\* changes an account's e-mail, so none changes whether it is an admin.
C7_AdminOnly ==
    [][/\ \A u \in get_current_user :
             ( /\ users[u].email \notin ADMIN_EMAILS
               /\ \/ \E h \in {None, Some(TRUE), Some(FALSE)} : list_all_users(u, h)
                  \/ \E id \in UserIds : approve_host_status(u, id)
                  \/ \E id \in UserIds : revoke_host_status(u, id) )
             => /\ resp'.status = 403
                /\ users' = users
       /\ \A u \in get_current_user :
             (users'[u].email \in ADMIN_EMAILS) <=> (users[u].email \in ADMIN_EMAILS)]_vars

\* An account outside the allow-list asked to revoke a host, and was refused.
C7_Witness ==
    /\ resp.op = "revoke_host_status"
    /\ resp.status = 403
    /\ \E u \in get_current_user : users[u].email \notin ADMIN_EMAILS /\ users[u].is_host

\* C8: after delete_event answers 204 for an event, no favorites row names it,
\* the listing of every account that had favorited it no longer has it, and the
\* rows of the other events are as before.
C8_DeleteCascades ==
    [][\A u \in get_current_user, id \in DOMAIN events :
          (resp'.op = "delete_event" /\ resp'.status = 204 /\ delete_event(u, id))
          => /\ \A fav \in favorites' : fav[2] # id
             /\ \A v \in get_current_user :
                   <<v, id>> \in favorites => id \notin FavoriteJoin(v)'
             /\ \A fav \in favorites : fav[2] # id => fav \in favorites'
             /\ favorites' \subseteq favorites]_vars

\* An event with favorites rows was deleted while another event keeps its rows.
C8_Witness ==
    /\ resp.op = "delete_event"
    /\ resp.line = 681
    /\ favorites # {}

\* C9: favorite_event on a stored event answers 204 and leaves the caller's row
\* for it in the table; when the row is already there the table does not change.
C9_FavoriteIdempotent ==
    [][\A u \in get_current_user, id \in DOMAIN events :
          (resp'.op = "favorite_event" /\ favorite_event(u, id))
          => /\ resp'.status = 204
             /\ favorites' = favorites \cup { <<u, id>> }
             /\ <<u, id>> \in favorites => favorites' = favorites]_vars

\* A favorite_event found the row of an earlier favorite_event.
C9_Witness ==
    /\ resp.op = "favorite_event"
    /\ resp.status = 204
    /\ resp.line = 747

\* C10: unfavorite_event answers 204 and leaves the event table alone; without a
\* row for the pair (also when the event is not stored) the favorites table does
\* not change, with one exactly that row goes.
C10_UnfavoriteIdempotent ==
    [][\A u \in get_current_user, id \in EventIds :
          (resp'.op = "unfavorite_event" /\ unfavorite_event(u, id))
          => /\ resp'.status = 204
             /\ events' = events
             /\ favorites' = favorites \ { <<u, id>> }
             /\ <<u, id>> \notin favorites => favorites' = favorites]_vars

\* An unfavorite_event found no row while other rows are stored.
C10_Witness ==
    /\ resp.op = "unfavorite_event"
    /\ resp.line = 781
    /\ favorites # {}

\* C11: favorite_event on an event id that is not stored answers 404 and adds no
\* favorites row.
C11_FavoriteMissingIs404 ==
    [][\A u \in get_current_user, id \in EventIds \ DOMAIN events :
          (resp'.op = "favorite_event" /\ favorite_event(u, id))
          => /\ resp'.status = 404
             /\ favorites' = favorites]_vars

\* C12: a list_events answer to a query with include_past = false holds no event
\* whose coalesce(ends_at, starts_at) is before the instant of the query, whatever
\* the other filters are.
C12_NoPastEvents ==
    (resp.op = "list_events" /\ resp.status = 200 /\ ~resp.query.include_past)
    => \A i \in DOMAIN resp.body :
           LET event == events[resp.body[i]]
           IN  (IF event.ends_at # None THEN event.ends_at[1] ELSE event.starts_at)
                   >= resp.query.now

\* A listing without past events that returns an event and leaves out a stored
\* one that is over.
C12_Witness ==
    /\ resp.op = "list_events" /\ resp.status = 200 /\ ~resp.query.include_past
    /\ resp.body # <<>>
    /\ \E e \in DOMAIN events :
           /\ events[e].ends_at = None
           /\ events[e].starts_at < resp.query.now
           /\ \A i \in DOMAIN resp.body : resp.body[i] # e

\* C13: with include_past = true list_events excludes nothing by time: a stored
\* event that is over at the instant of the query and passes the date, q and tag
\* filters is in the answer whenever the events passing those filters fit in the
\* limit, while the answer to the query with include_past = false leaves it out.
C13_PastOnRequest ==
    (resp.op = "list_events" /\ resp.status = 200)
    => LET query == resp.query
           passing == { e \in DOMAIN events :
                          /\ query.start_date = None \/ events[e].starts_at >= query.start_date[1]
                          /\ query.end_date = None \/ events[e].starts_at <= query.end_date[1]
                          /\ q_matches(query.q, events[e])
                          /\ tag_matches(query.tag, events[e]) }
           listed == { resp.body[i] : i \in DOMAIN resp.body }
       IN  \A e \in passing :
               coalesce_end(events[e]) < query.now
               => IF query.include_past
                  THEN Cardinality(passing) <= query.limit => e \in listed
                  ELSE e \notin listed

\* A listing with include_past = true and a text filter that returns an event
\* that is over.
C13_Witness ==
    /\ resp.op = "list_events" /\ resp.status = 200 /\ resp.query.include_past
    /\ resp.query.q # None
    /\ \E i \in DOMAIN resp.body : coalesce_end(events[resp.body[i]]) < resp.query.now

\* C14: the answer of list_events is the first limit elements of the stored
\* events that pass all filters, sorted ascending by starts_at: it holds only such
\* events, each once, soonest first, at most limit of them and all of them when
\* they fit, and no event left out by the truncation starts before a returned one.
C14_SortThenTruncate ==
    (resp.op = "list_events" /\ resp.status = 200)
    => LET body == resp.body
           listed == { body[i] : i \in DOMAIN body }
           matching == Matching(resp.query)
       IN  /\ listed \subseteq matching
           /\ \A i, j \in DOMAIN body : i < j => body[i] # body[j]
           /\ \A i, j \in DOMAIN body :
                  i < j => events[body[i]].starts_at <= events[body[j]].starts_at
           /\ Len(body) <= resp.query.limit
           /\ Len(body) < resp.query.limit => listed = matching
           /\ \A e \in matching \ listed, l \in listed :
                  events[e].starts_at >= events[l].starts_at

\* A listing cut by its limit: an event that passes the filters and starts later
\* than the returned one is left out.
C14_Witness ==
    /\ resp.op = "list_events" /\ resp.status = 200
    /\ Len(resp.body) = resp.query.limit
    /\ \E e \in Matching(resp.query) :
           /\ \A i \in DOMAIN resp.body : resp.body[i] # e
           /\ events[e].starts_at > events[resp.body[Len(resp.body)]].starts_at

\* C20: a q of fewer than 3 characters is rejected with 422 and filters nothing;
\* otherwise the answer to a query with q holds only events that have q, compared
\* without regard to case, as a substring of the name, of the description (an
\* absent description counts as empty) or of the location, and it holds every such
\* event that passes the other filters unless the limit cut the list.
C20_TextFilter ==
    (resp.op = "list_events" /\ resp.query.q # None)
    => LET query == resp.query
           needle == str_lower(Chars(query.q[1]))
           has_q(e) ==
               \/ str_in(needle, str_lower(Chars(events[e].name)))
               \/ str_in(needle, str_lower(Chars(IF events[e].description = None
                                                  THEN "" ELSE events[e].description[1])))
               \/ str_in(needle, str_lower(Chars(events[e].location)))
           others == { e \in SelectEvents(query.now, query.start_date, query.end_date,
                                          query.include_past) :
                         tag_matches(query.tag, events[e]) }
           listed == { resp.body[i] : i \in DOMAIN resp.body }
       IN  IF Len(Chars(query.q[1])) < 3
           THEN resp.status = 422 /\ resp.body = <<>>
           ELSE /\ resp.status = 200 \/ query.limit \notin 1..500
                /\ resp.status = 200 =>
                       /\ \A e \in listed : has_q(e)
                       /\ Len(resp.body) < query.limit =>
                              listed = { e \in others : has_q(e) }

\* A listing with q = "tAl" that returns an event matched only by its description
\* "viTAL" and leaves out a stored event that has "tal" nowhere.
C20_Witness ==
    /\ resp.op = "list_events" /\ resp.status = 200 /\ resp.query.q = Some("tAl")
    /\ \E i \in DOMAIN resp.body : events[resp.body[i]].description = Some("viTAL")
    /\ \E e \in DOMAIN events :
           /\ events[e].description = None /\ events[e].location = "Quad"
           /\ \A i \in DOMAIN resp.body : resp.body[i] # e

\* C15: an update_event that answers 200 gives the fields of the request their
\* new values and leaves every other field of the event (owner_id and created_at
\* among them), the ids of the stored events, every other event, the favorites
\* rows and the accounts as they were.
C15_UpdateFrame ==
    [][\A u \in get_current_user, id \in DOMAIN events, upd \in FieldUpdates :
          (update_event(u, id, upd) /\ resp'.op = "update_event" /\ resp'.status = 200)
          => /\ DOMAIN events' = DOMAIN events
             /\ DOMAIN events'[id] = DOMAIN events[id]
             /\ \A f \in DOMAIN events[id] \ DOMAIN upd : events'[id][f] = events[id][f]
             /\ \A f \in DOMAIN upd \ {"name", "location", "starts_at"} :
                    events'[id][f] = upd[f]
             /\ \A f \in DOMAIN upd \cap {"name", "location", "starts_at"} :
                    events'[id][f] = upd[f][1]
             /\ events'[id].owner_id = events[id].owner_id
             /\ events'[id].created_at = events[id].created_at
             /\ \A e \in DOMAIN events \ {id} : events'[e] = events[e]
             /\ favorites' = favorites
             /\ users' = users
             /\ event_seq' = event_seq]_vars

\* After an update: an event that has kept the location of one update and the
\* description of another, next to a second event and a favorites row.
C15_Witness ==
    /\ resp.op = "update_event" /\ resp.status = 200
    /\ Cardinality(DOMAIN events) = 2
    /\ favorites # {}
    /\ \E id \in DOMAIN events :
           /\ events[id].location = "Quad"
           /\ events[id].description = Some("viTAL")
           /\ events[id].ends_at = Some(MaxTime)

\* C16: whatever makes get_current_user turn a bearer token down (no token, a
\* token jwt.decode refuses, no "sub", a "sub" without account), the answer is
\* the same 401 "Could not validate credentials" with an empty body, and the
\* store is left as it was.
C16_OpaqueUnauthenticated ==
    [][\A op \in ProtectedOps, token \in BearerTokens :
          get_current_user_fails(op, token)
          => /\ resp'.status = 401
             /\ resp'.detail = "Could not validate credentials"
             /\ resp'.body = <<>>
             /\ <<users, events, event_seq, favorites>>' = <<users, events, event_seq, favorites>>]_vars

\* A token whose "sub" has no account is turned down while an account is stored.
C16_Witness ==
    /\ resp.op \in ProtectedOps /\ resp.status = 401 /\ resp.line = 210
    /\ Len(users) > 0

\* C17: a login whose verified address does not end, case ignored, with
\* "@ucsc.edu" is turned down with 403, so no token is returned, and it creates
\* and changes no account; every stored account has an address with that suffix.
C17_OnlyUcscLogins ==
    /\ [](\A u \in 1..Len(users) : Lower(users[u].email.domain) = "ucsc.edu")
    /\ [][\A info \in AuthTokenInfos :
             (/\ info.outcome = "ok" /\ info.aud = GOOGLE_CLIENT_ID /\ info.email # None
              /\ Lower(info.email[1].domain) # "ucsc.edu"
              /\ authenticate_with_google(info))
             => /\ resp'.status = 403
                /\ users' = users]_vars

\* A login turned down for its address while the account of an address with the
\* suffix in capitals is stored.
C17_Witness ==
    /\ resp.op = "authenticate_with_google" /\ resp.status = 403
    /\ \E u \in 1..Len(users) : users[u].email.domain = "UCSC.EDU"

\* C18: a login whose tokeninfo call fails or is answered with a status other
\* than 200 is answered 401 and creates and changes no account.
C18_ProviderFailureIs401 ==
    [][\A info \in AuthTokenInfos :
          (info.outcome \in {"error", "non200"} /\ authenticate_with_google(info))
          => /\ resp'.status = 401
             /\ users' = users]_vars

\* C19: list_favorites of account u answers with the stored events that have a
\* favorites row (u, event), each once, in descending order of starts_at; an
\* event only another account has favorited is not in the answer.
C19_OwnFavoritesDescending ==
    [][\A u \in get_current_user :
          (list_favorites(u) /\ resp'.op = "list_favorites")
          => LET body == resp'.body
                 listed == { body[i] : i \in DOMAIN body }
             IN  /\ resp'.status = 200
                 /\ listed = { e \in DOMAIN events : <<u, e>> \in favorites }
                 /\ Len(body) = Cardinality(listed)
                 /\ \A i, j \in DOMAIN body :
                        i < j => events[body[i]].starts_at >= events[body[j]].starts_at]_vars

\* A listing that returns the caller's favorite and not the stored event, of
\* another start time, that only the other account has favorited.
C19_Witness ==
    /\ resp.op = "list_favorites" /\ resp.status = 200
    /\ Len(resp.body) = 1
    /\ \E u, v \in 1..Len(users), e \in DOMAIN events :
           /\ u # v
           /\ <<u, resp.body[1]>> \in favorites
           /\ <<v, e>> \in favorites
           /\ <<u, e>> \notin favorites
           /\ events[e].starts_at # events[resp.body[1]].starts_at

\* C21: however the selects and inserts of logins of the same new address fall,
\* no two accounts have the same address and every such login is answered 200.
C21_LoginRaceNoError ==
    /\ \A u, v \in 1..Len(users) : users[u].email = users[v].email => u = v
    /\ resp.op = "authenticate_with_google" => resp.status = 200

\* C22: the guard and the write of approve_host_status and of revoke_host_status
\* are one atomic step: a write that is answered 200 is applied to an account on
\* which the guard still holds, so of two requests for the same account that run
\* side by side only one is answered 200.
C22_GuardAndWriteAtomic ==
    [][\A w \in Workers :
          /\ approve_host_status_commit(w) => ~users[inflight[w].user_id].is_host
          /\ revoke_host_status_commit(w) => users[inflight[w].user_id].is_host]_vars

\* C23: however favorite_event, unfavorite_event and delete_event requests fall,
\* every favorites row is the row of a stored event.
C23_NoOrphanFavorites ==
    \A fav \in favorites : fav[2] \in DOMAIN events

\* C24: the insert of a favorite_event whose event is stored is answered 204 and
\* leaves the row of the pair in the table, also when another request for the
\* same pair has passed the lookup of "existing" at the same time.
C24_FavoriteRaceNoError ==
    [][\A w \in Workers :
          (favorite_event_commit(w) /\ inflight[w].event_id \in DOMAIN events)
          => /\ resp'.status = 204
             /\ <<inflight[w].user_id, inflight[w].event_id>> \in favorites']_vars

\* C25: create_event stores the id of its caller as owner_id of the new event,
\* and no request changes the owner_id of a stored event.
C25_OwnerIsCreator ==
    [][/\ \A e \in DOMAIN events \cap DOMAIN events' :
              events'[e].owner_id = events[e].owner_id
       /\ \A e \in DOMAIN events' \ DOMAIN events :
              \E u \in get_current_user, body \in PlainBodies :
                  create_event(u, body) /\ events'[e].owner_id = Some(u)]_vars

\* After an update that was answered 200: events of two owners are stored.
C25_Witness ==
    /\ resp.op = "update_event" /\ resp.status = 200
    /\ \E d, e \in DOMAIN events :
           /\ events[d].owner_id = Some(1)
           /\ events[e].owner_id = Some(2)

\* C26: for a caller that is not a host, update_event (with a body that nulls no
\* required column) and delete_event on an event the caller owns are answered
\* 200 and 204 and take effect, while create_event with a valid body is answered
\* 403.
C26_OwnershipNotHostStatus ==
    [][\A u \in get_current_user :
          ~users[u].is_host
          => /\ \A id \in DOMAIN events, upd \in PlainUpdates :
                    (/\ events[id].owner_id = Some(u) /\ ~NotNullViolated(upd)
                     /\ update_event(u, id, upd) /\ resp'.op = "update_event")
                    => resp'.status = 200
             /\ \A id \in DOMAIN events :
                    (/\ events[id].owner_id = Some(u)
                     /\ delete_event(u, id) /\ resp'.op = "delete_event")
                    => resp'.status = 204 /\ id \notin DOMAIN events'
             /\ \A body \in PlainBodies :
                    (check_times(body) /\ create_event(u, body) /\ resp'.op = "create_event")
                    => resp'.status = 403 /\ events' = events]_vars

\* After an update that was answered 200 while no owner of a stored event is a
\* host: the owner has updated the event after the revocation.
C26_Witness ==
    /\ resp.op = "update_event" /\ resp.status = 200
    /\ \A e \in DOMAIN events : ~users[events[e].owner_id[1]].is_host

\* C27: update_event and delete_event on the event without owner are answered
\* 403 for every caller, and the event stays in the store as it was.
C27_UnownedEventFrozen ==
    /\ [](1 \in DOMAIN events /\ events[1] = LegacyEvent)
    /\ [][\A u \in get_current_user :
             /\ \A upd \in PlainUpdates :
                    (update_event(u, 1, upd) /\ resp'.op = "update_event")
                    => resp'.status = 403 /\ events' = events
             /\ (delete_event(u, 1) /\ resp'.op = "delete_event")
                    => resp'.status = 403 /\ events' = events]_vars

\* A delete_event answered 403 while the event without owner is the only one
\* stored: it was the target.
C27_Witness ==
    /\ resp.op = "delete_event" /\ resp.status = 403
    /\ DOMAIN events = {1}
    /\ events[1].owner_id = None
    /\ Len(users) = 2
====
